---- MODULE Spec2Model ----
(***************************************************************************)
(* Model of pynight.common_torch: torch_shape_get (the structural          *)
(* introspector) and drop_tokens (the masked sequence compactor).          *)
(*                                                                         *)
(* A tensor is a record [shape, data]: shape is the sequence of its        *)
(* dimension sizes and data its entries in row-major (contiguous) order.   *)
(***************************************************************************)
EXTENDS Integers, Sequences, FiniteSets, TLC

\* Bounds of the compactor inputs.
MaxB == 2
MaxL == 3

\* Bounds of the introspector inputs: the longest list drawn, and the number
\* of calls made in one behaviour.
MaxLen == 2
MaxCalls == 2

VARIABLES
    tokens,             \* drop_tokens argument: tensor [B, L, ...feature dims]
    mask,               \* drop_tokens argument: 2-D tensor of 0/1 entries
    num_prefix_tokens,  \* drop_tokens argument
    results,            \* outcome of the call made with ordered = TRUE / FALSE
    input,              \* torch_shape_get argument of the last call
    size_p,             \* torch_shape_get argument of the last call
    type_only_p,        \* torch_shape_get argument of the last call
    total_size,         \* the nonlocal running total of torch_shape_get
    returned,           \* what the last torch_shape_get call returned
    calls               \* number of torch_shape_get calls made so far

vars == <<tokens, mask, num_prefix_tokens, results,
          input, size_p, type_only_p, total_size, returned, calls>>

dropVars == <<tokens, mask, num_prefix_tokens, results>>
shapeVars == <<input, size_p, type_only_p, total_size, returned, calls>>

----------------------------------------------------------------------------
(* Tensor helpers *)

RECURSIVE Prod(_)
Prod(s) == IF Len(s) = 0 THEN 1 ELSE Head(s) * Prod(Tail(s))

Min(a, b) == IF a < b THEN a ELSE b

Tensor(shape, data) == [shape |-> shape, data |-> data]

EmptyTensor == Tensor(<<0>>, <<>>)

\* torch.arange(Prod(shape)).reshape(shape): every entry is distinct.
Arange(shape) == Tensor(shape, [i \in 1..Prod(shape) |-> i - 1])

\* The dimensions after the first two.
FeatureDims(shape) == SubSeq(shape, 3, Len(shape))

\* shape[:-1]
AllButLast(shape) == SubSeq(shape, 1, Len(shape) - 1)

\* t[:, lo:hi] for 0 <= lo, hi: python clamps both ends of the slice to the
\* size of the axis.
SliceDim1(t, lo, hi) ==
    LET B == t.shape[1]
        L == t.shape[2]
        inner == Prod(FeatureDims(t.shape))
        a == Min(lo, L)
        b == IF Min(hi, L) < a THEN a ELSE Min(hi, L)
        n == b - a
    IN Tensor(<<B, n>> \o FeatureDims(t.shape),
              [i \in 1..(B * n * inner) |->
                 LET r == (i - 1) \div (n * inner)
                     rest == (i - 1) % (n * inner)
                 IN t.data[r * L * inner + a * inner + rest + 1]])

\* mask.nonzero(as_tuple=True) of a 2-D mask: the <<row, column>> indices
\* (0-based) of the nonzero entries, in row-major order.
RECURSIVE NonzeroFrom(_, _)
NonzeroFrom(m, i) ==
    IF i > Len(m.data) THEN <<>>
    ELSE (IF m.data[i] # 0
            THEN << <<(i - 1) \div m.shape[2], (i - 1) % m.shape[2]>> >>
            ELSE <<>>) \o NonzeroFrom(m, i + 1)

\* Mutant: the nonzero entries listed column by column.
Nonzero_column_major(m) ==
    LET rowMajor == NonzeroFrom(m, 1)
        rank(p) == p[2] * m.shape[1] + p[1]
        pos(k) == Cardinality({j \in 1..Len(rowMajor) : rank(rowMajor[j]) < rank(rowMajor[k])}) + 1
    IN [i \in 1..Len(rowMajor) |->
          rowMajor[CHOOSE k \in 1..Len(rowMajor) : pos(k) = i]]

Nonzero(m) == NonzeroFrom(m, 1)

\* t[(rows, cols)]: advanced indexing of the first two axes; the result has
\* shape [N, ...feature dims].
IndexInRange(t, idx) ==
    \A k \in 1..Len(idx) : idx[k][1] < t.shape[1] /\ idx[k][2] < t.shape[2]

IndexSelect(t, idx) ==
    LET L == t.shape[2]
        inner == Prod(FeatureDims(t.shape))
        N == Len(idx)
    IN Tensor(<<N>> \o FeatureDims(t.shape),
              [i \in 1..(N * inner) |->
                 LET k == (i - 1) \div inner
                     rest == (i - 1) % inner
                 IN t.data[idx[k + 1][1] * L * inner + idx[k + 1][2] * inner
                           + rest + 1]])

\* Mutant: the -1 is inferred by a floor division, whatever the remainder.
ReshapeOk_floor(numel, b0, rest) == b0 * Prod(rest) # 0

\* torch's infer_size for the shape (b0, -1, *rest): can the -1 be inferred?
\* newsize is the product of the given dimensions.
ReshapeOk(numel, b0, rest) ==
    LET newsize == b0 * Prod(rest)
    IN /\ (numel = newsize \/ (newsize > 0 /\ numel % newsize = 0))
       /\ newsize # 0

\* Mutant: reshape((-1, b0, *rest)).
Reshape_swapped(t, b0, rest) ==
    Tensor(<<Len(t.data) \div (b0 * Prod(rest)), b0>> \o rest, t.data)

\* t.reshape((b0, -1, *rest)) when ReshapeOk: same data, new shape.
Reshape(t, b0, rest) ==
    Tensor(<<b0, Len(t.data) \div (b0 * Prod(rest))>> \o rest, t.data)

\* torch.cat((p, t), dim=1) for tensors that agree on every other axis.
CatDim1(p, t) ==
    LET B == p.shape[1]
        inner == Prod(FeatureDims(p.shape))
        np == p.shape[2] * inner
        nt == t.shape[2] * inner
    IN Tensor(<<B, p.shape[2] + t.shape[2]>> \o FeatureDims(p.shape),
              [i \in 1..(B * (np + nt)) |->
                 LET r == (i - 1) \div (np + nt)
                     rest == (i - 1) % (np + nt)
                 IN IF rest < np THEN p.data[r * np + rest + 1]
                    ELSE t.data[r * nt + (rest - np) + 1]])

----------------------------------------------------------------------------
(* drop_tokens *)

Ok(t) == [status |-> "ok", value |-> t]
Raised(e) == [status |-> e, value |-> EmptyTensor]
NoCall == [status |-> "none", value |-> EmptyTensor]

\* Lines 277-283: the body that remains after the prefix is split off.
body_of(toks, npt) ==
    IF npt # 0 THEN SliceDim1(toks, npt, toks.shape[2]) ELSE toks

\* Mutant: only the batch sizes are compared.
shape_assert_batch_only(body, m) == body.shape[1] = m.shape[1]

\* Line 285: assert tokens.shape[:-1] == mask.shape
shape_assert(body, m) == AllButLast(body.shape) = m.shape

\* Lines 290-291: index the body by idx, then reshape to
\* (B, -1, *feature dims).
select_by(body, idx) ==
    LET picked == IndexSelect(body, idx)
        rest == FeatureDims(body.shape)
    IN IF ~IndexInRange(body, idx) THEN Raised("IndexError")
       ELSE IF ~ReshapeOk(Len(picked.data), body.shape[1], rest)
            THEN Raised("RuntimeError")
       ELSE Ok(Reshape(picked, body.shape[1], rest))

\* Lines 290-291 with idx = mask.nonzero(as_tuple=True).
select_reshape(body, m) == select_by(body, Nonzero(m))

\* Lines 296-299: the prefix, when one was split off, goes back in front.
cat_prefix(toks, npt, sel) ==
    IF npt # 0 THEN Ok(CatDim1(SliceDim1(toks, 0, npt), sel.value)) ELSE sel

Reverse(q) == [i \in 1..Len(q) |-> q[Len(q) + 1 - i]]

\* Mutant: without ordered the selection is taken in reverse order.
drop_tokens_unordered(toks, m, npt, ordered) ==
    LET body == body_of(toks, npt)
        sel == IF ordered THEN select_reshape(body, m)
               ELSE select_by(body, Reverse(Nonzero(m)))
    IN IF ~shape_assert(body, m) THEN Raised("AssertionError")
       ELSE IF sel.status # "ok" THEN sel
       ELSE cat_prefix(toks, npt, sel)

\* Mutant: the prefix is not put back.
drop_tokens_no_cat(toks, m, npt, ordered) ==
    LET body == body_of(toks, npt)
        sel == select_reshape(body, m)
    IN IF ~shape_assert(body, m) THEN Raised("AssertionError") ELSE sel

\* Lines 277-301.
drop_tokens(toks, m, npt, ordered) ==
    LET body == body_of(toks, npt)
        sel == select_reshape(body, m)
    IN IF ~shape_assert(body, m) THEN Raised("AssertionError")
       ELSE IF sel.status # "ok" THEN sel
       ELSE cat_prefix(toks, npt, sel)

----------------------------------------------------------------------------
(* Inputs of drop_tokens *)

FeatureShapes == {<<>>, <<0>>, <<2>>, <<1, 2>>}

TokenShapes ==
    {<<b, l>> \o f : b \in 0..MaxB, l \in 0..MaxL, f \in FeatureShapes}

\* Mask shapes offered for a body [B, Lb, ...]: the matching one, and the
\* ones with one more row or one more column.
MaskShapes(B, Lb) ==
    {<<B, Lb>>}
    \cup (IF Lb + 1 <= MaxL THEN {<<B, Lb + 1>>} ELSE {})
    \cup (IF B + 1 <= MaxB THEN {<<B + 1, Lb>>} ELSE {})

Masks(shape) == {Tensor(shape, d) : d \in [1..Prod(shape) -> {0, 1}]}

InitDrop ==
    /\ \E s \in TokenShapes : tokens = Arange(s)
    /\ num_prefix_tokens \in 0..MaxL
    /\ \E ms \in MaskShapes(tokens.shape[1],
                            tokens.shape[2] - Min(num_prefix_tokens, tokens.shape[2])) :
          mask \in Masks(ms)
    /\ results = [o \in BOOLEAN |-> NoCall]

\* One call of drop_tokens on the inputs, with the given ordered flag.
DropTokens(ordered) ==
    /\ results[ordered].status = "none"
    /\ results' = [results EXCEPT
                     ![ordered] = drop_tokens(tokens, mask, num_prefix_tokens, ordered)]
    /\ UNCHANGED <<tokens, mask, num_prefix_tokens>>
    /\ UNCHANGED shapeVars

DropOrdered == DropTokens(TRUE)
DropUnordered == DropTokens(FALSE)

InitCompact ==
    /\ InitDrop
    /\ input = [kind |-> "none"]
    /\ size_p = FALSE
    /\ type_only_p = FALSE
    /\ total_size = [num |-> 0, exp |-> 0]
    /\ returned = [kind |-> "unset"]
    /\ calls = 0
NextCompact == DropOrdered \/ DropUnordered
SpecCompact == InitCompact /\ [][NextCompact]_vars

----------------------------------------------------------------------------
(* Nested structures: leaves, None, lists and string-keyed dicts *)

\* A leaf object: its python type, the attributes hasattr finds on it, and
\* the values of those attributes.
Leaf(type, attrs, dtype, shape, element_size, nelement) ==
    [kind |-> "leaf", type |-> type, attrs |-> attrs, dtype |-> dtype,
     shape |-> shape, element_size |-> element_size, nelement |-> nelement]

NoneNode == [kind |-> "none"]
ListNode(items) == [kind |-> "list", items |-> items]
\* A dict with its keys in insertion order and the value of each key.
DictNode(keys, items) == [kind |-> "dict", keys |-> keys, items |-> items]

TensorAttrs == {"dtype", "shape", "element_size", "nelement"}

\* float32 [512, 512]: exactly 1 MB.
TensorMB == Leaf("Tensor", TensorAttrs, "float32", <<512, 512>>, 4, 262144)
\* float32 [128, 256]: exactly 0.125 MB.
TensorEighth == Leaf("Tensor", TensorAttrs, "float32", <<128, 256>>, 4, 32768)
\* int64 [2, 3]: 48 bytes.
TensorSmall == Leaf("Tensor", TensorAttrs, "int64", <<2, 3>>, 8, 6)
\* a numpy array: dtype and shape, neither element_size nor nelement.
NdArray == Leaf("ndarray", {"dtype", "shape"}, "float64", <<4>>, 0, 0)
ShapeOnly == Leaf("Shaped", {"shape"}, "", <<2, 3>>, 0, 0)
DtypeOnly == Leaf("Typed", {"dtype"}, "int8", <<>>, 0, 0)
SizeOnly == Leaf("Storage", {"element_size", "nelement"}, "", <<>>, 2, 786432)
DtypeSized == Leaf("TypedStorage", {"dtype", "element_size", "nelement"},
                   "uint8", <<>>, 1, 1048576)
ElementSizeOnly == Leaf("Partial", {"element_size"}, "", <<>>, 4, 0)
PlainInt == Leaf("int", {}, "", <<>>, 0, 0)
PlainStr == Leaf("str", {}, "", <<>>, 0, 0)

AllLeaves == {TensorMB, TensorEighth, TensorSmall, NdArray, ShapeOnly, DtypeOnly,
              SizeOnly, DtypeSized, ElementSizeOnly, PlainInt, PlainStr}

\* The dict keys, in sorted order.
KeyOrder == <<"a", "b">>

----------------------------------------------------------------------------
(* torch_memory_tensor and the size arithmetic *)

RECURSIVE Pow1024(_)
Pow1024(s) == IF s = 0 THEN 1 ELSE 1024 * Pow1024(s - 1)

\* The number num / 1024^exp, kept in lowest terms of 1024.
RECURSIVE Mb(_, _)
Mb(num, exp) ==
    IF num = 0 THEN [num |-> 0, exp |-> 0]
    ELSE IF exp > 0 /\ num % 1024 = 0 THEN Mb(num \div 1024, exp - 1)
    ELSE [num |-> num, exp |-> exp]

MbAdd(x, y) ==
    IF x.exp >= y.exp
      THEN Mb(x.num + y.num * Pow1024(x.exp - y.exp), x.exp)
      ELSE Mb(x.num * Pow1024(y.exp - x.exp) + y.num, y.exp)

\* Lines 127-132: element_size() * nelement() / 1024**s
torch_memory_tensor(x, s) == Mb(x.element_size * x.nelement, s)

\* f"{size:.2f}MB": the number of hundredths nearest to size (ties to even)
\* and the suffix.
Format2fMB(size) ==
    LET d == Pow1024(size.exp)
        q == (size.num * 100) \div d
        r == (size.num * 100) % d
        h == IF 2 * r > d THEN q + 1
             ELSE IF 2 * r = d THEN q + (q % 2)
             ELSE q
    IN [tag |-> "str", hundredths |-> h, suffix |-> "MB"]

----------------------------------------------------------------------------
(* torch_shape_get *)

DtypePart(x) == [tag |-> "dtype", v |-> x.dtype]
ClassPart(x) == [tag |-> "class", v |-> x.type]
ShapePart(x) == [tag |-> "shape", v |-> x.shape]

TupleOut(parts) == [kind |-> "tuple", parts |-> parts]
ClassOut(x) == [kind |-> "class", name |-> x.type]

\* Line 43: the leaf is sized when size_p is set and it has both attributes.
sized_leaf(x, sp) ==
    sp /\ "element_size" \in x.attrs /\ "nelement" \in x.attrs

\* Mutant: the shape branch is an if, not an elif.
type_shape_parts_if(x) ==
    (IF "dtype" \in x.attrs THEN <<DtypePart(x)>> ELSE <<>>)
    \o (IF "shape" \in x.attrs THEN <<ClassPart(x), ShapePart(x)>> ELSE <<>>)

\* Lines 34-41: dtype, then shape only under dtype; else type and shape.
type_shape_parts(x) ==
    IF "dtype" \in x.attrs
      THEN <<DtypePart(x)>>
           \o (IF "shape" \in x.attrs THEN <<ShapePart(x)>> ELSE <<>>)
    ELSE IF "shape" \in x.attrs THEN <<ClassPart(x), ShapePart(x)>>
    ELSE <<>>

\* Mutant: type_only_p is ignored.
fallback_value(x, to) == x

\* Lines 49-53: what stands for a leaf that produced no component.
fallback(x, to) == IF to THEN ClassOut(x) ELSE x

\* Lines 31-55: h_shape_get, the value it returns for leaf x.
h_shape_get(x, sp, to) ==
    LET res == type_shape_parts(x)
               \o (IF sized_leaf(x, sp)
                     THEN <<Format2fMB(torch_memory_tensor(x, 2))>> ELSE <<>>)
    IN IF Len(res) = 0 THEN fallback(x, to) ELSE TupleOut(res)

\* Lines 43-45: what h_shape_get adds to total_size for leaf x.
h_size(x, sp) ==
    IF sized_leaf(x, sp) THEN torch_memory_tensor(x, 2) ELSE Mb(0, 0)

\* The keys of a dict in sorted order, as jax flattens and rebuilds it.
SortedKeys(keys) ==
    SelectSeq(KeyOrder, LAMBDA k : \E i \in 1..Len(keys) : keys[i] = k)

ValueOf(d, k) == d.items[CHOOSE i \in 1..Len(d.keys) : d.keys[i] = k]

\* Mutant: the children of a list come back in reverse order.
RECURSIVE tree_map_reversed(_, _, _)
tree_map_reversed(x, sp, to) ==
    CASE x.kind = "list" ->
           ListNode([i \in 1..Len(x.items) |->
                       tree_map_reversed(x.items[Len(x.items) + 1 - i], sp, to)])
      [] x.kind = "dict" ->
           LET ks == SortedKeys(x.keys)
           IN DictNode(ks, [i \in 1..Len(ks) |->
                              tree_map_reversed(ValueOf(x, ks[i]), sp, to)])
      [] x.kind = "none" -> x
      [] OTHER -> h_shape_get(x, sp, to)

\* Line 57: jax.tree_map(h_shape_get, input).  Lists and dicts are rebuilt
\* around the mapped children, a dict with its keys sorted; None is a node
\* without children and comes back as None; anything else is a leaf.
RECURSIVE tree_map(_, _, _)
tree_map(x, sp, to) ==
    CASE x.kind = "list" ->
           ListNode([i \in 1..Len(x.items) |-> tree_map(x.items[i], sp, to)])
      [] x.kind = "dict" ->
           LET ks == SortedKeys(x.keys)
           IN DictNode(ks, [i \in 1..Len(ks) |-> tree_map(ValueOf(x, ks[i]), sp, to)])
      [] x.kind = "none" -> x
      [] OTHER -> h_shape_get(x, sp, to)

\* The leaves in the order jax.tree_map visits them.
RECURSIVE tree_leaves(_)
RECURSIVE LeavesOfSeq(_)
LeavesOfSeq(xs) ==
    IF Len(xs) = 0 THEN <<>> ELSE tree_leaves(Head(xs)) \o LeavesOfSeq(Tail(xs))
tree_leaves(x) ==
    CASE x.kind = "list" -> LeavesOfSeq(x.items)
      [] x.kind = "dict" ->
           LET ks == SortedKeys(x.keys)
           IN LeavesOfSeq([i \in 1..Len(ks) |-> ValueOf(x, ks[i])])
      [] x.kind = "none" -> <<>>
      [] OTHER -> <<x>>

\* Mutant: the total is kept from one call to the next.
initial_total_kept(prev) == prev

\* Line 29: total_size = 0 at the start of every call (prev is the value the
\* variable held before).
initial_total(prev) == Mb(0, 0)

\* total_size after h_shape_get ran on each leaf in turn.
RECURSIVE accumulate(_, _, _)
accumulate(total, leaves, sp) ==
    IF Len(leaves) = 0 THEN total
    ELSE accumulate(MbAdd(total, h_size(Head(leaves), sp)), Tail(leaves), sp)

\* Lines 59-63: the return value.
return_value(total, res, sp) ==
    IF sp THEN [total_size_mb |-> total, tree |-> res] ELSE res

----------------------------------------------------------------------------
(* Inputs of torch_shape_get *)

CoreLeaves == {TensorEighth, NdArray, PlainInt}

RECURSIVE SeqsUpTo(_, _)
SeqsUpTo(S, n) ==
    IF n = 0 THEN {<<>>}
    ELSE LET shorter == SeqsUpTo(S, n - 1)
         IN shorter \cup {Append(q, e) : q \in {t \in shorter : Len(t) = n - 1}, e \in S}

KeySeqs == {<<>>, <<"a">>, <<"b">>, <<"a", "b">>, <<"b", "a">>}

FlatLists == {ListNode(q) : q \in SeqsUpTo(CoreLeaves \cup {NoneNode}, MaxLen)}

FlatDicts ==
    UNION {{DictNode(ks, vs) : vs \in [1..Len(ks) -> CoreLeaves]} : ks \in KeySeqs}

Inner == {ListNode(<<>>), ListNode(<<NdArray>>), ListNode(<<TensorMB, PlainInt>>),
          DictNode(<<"b", "a">>, <<TensorSmall, NoneNode>>)}

NestedStructures ==
    {ListNode(<<x>>) : x \in Inner}
    \cup {ListNode(<<x, y>>) : x \in Inner, y \in {TensorSmall, ListNode(<<PlainStr>>)}}
    \cup {DictNode(<<"a", "b">>, <<x, y>>) : x \in {TensorSmall, SizeOnly}, y \in Inner}
    \cup {DictNode(<<"b", "a">>, <<x, y>>) : x \in Inner, y \in {TensorMB}}

Structures == AllLeaves \cup {NoneNode} \cup FlatLists \cup FlatDicts \cup NestedStructures

NoReturn == [kind |-> "unset"]

InitShape ==
    /\ input = NoneNode
    /\ size_p = FALSE
    /\ type_only_p = FALSE
    /\ total_size = Mb(0, 0)
    /\ returned = NoReturn
    /\ calls = 0

\* One call torch_shape_get(x, size_p=sp, type_only_p=to).
TorchShapeGet(x, sp, to) ==
    /\ calls < MaxCalls
    /\ calls' = calls + 1
    /\ input' = x
    /\ size_p' = sp
    /\ type_only_p' = to
    /\ total_size' = accumulate(initial_total(total_size), tree_leaves(x), sp)
    /\ returned' = return_value(total_size', tree_map(x, sp, to), sp)
    /\ UNCHANGED dropVars

CallTorchShapeGet ==
    \E x \in Structures, sp \in BOOLEAN, to \in BOOLEAN : TorchShapeGet(x, sp, to)

IdleDrop ==
    /\ tokens = EmptyTensor
    /\ mask = EmptyTensor
    /\ num_prefix_tokens = 0
    /\ results = [o \in BOOLEAN |-> NoCall]

InitIntrospect == InitShape /\ IdleDrop
NextIntrospect == CallTorchShapeGet
SpecIntrospect == InitIntrospect /\ [][NextIntrospect]_vars

----------------------------------------------------------------------------
(* Properties of drop_tokens *)

Called(o) == results[o].status # "none"

Bt == tokens.shape[1]
Lt == tokens.shape[2]
BodyLen == Lt - Min(num_prefix_tokens, Lt)
OneFeatureDim == Len(tokens.shape) = 3 /\ tokens.shape[3] >= 1

\* Number of nonzero entries of mask row r (1-based).
RowCount(r) ==
    Cardinality({j \in 1..mask.shape[2] :
                   mask.data[(r - 1) * mask.shape[2] + j] # 0})

TotalCount == Cardinality({i \in 1..Len(mask.data) : mask.data[i] # 0})

EqualCounts ==
    \A r1, r2 \in 1..mask.shape[1] : RowCount(r1) = RowCount(r2)

MaskAligned ==
    /\ num_prefix_tokens <= Lt
    /\ mask.shape = <<Bt, Lt - num_prefix_tokens>>

AllTrueMask == \A i \in 1..Len(mask.data) : mask.data[i] # 0

\* The entries of tokens[r, l] (r 1-based, l 0-based), as a flat sequence.
Entry(r, l) ==
    LET inner == Prod(FeatureDims(tokens.shape))
    IN SubSeq(tokens.data, ((r - 1) * Lt + l) * inner + 1,
                           ((r - 1) * Lt + l + 1) * inner)

\* tokens[r, 0..P-1] followed by tokens[r, P+j] for the j >= from with
\* mask[r, j] nonzero, in ascending j.
RECURSIVE PrefixRow(_, _)
PrefixRow(r, l) ==
    IF l >= num_prefix_tokens THEN <<>> ELSE Entry(r, l) \o PrefixRow(r, l + 1)

RECURSIVE KeptRow(_, _)
KeptRow(r, j) ==
    IF j >= mask.shape[2] THEN <<>>
    ELSE (IF mask.data[(r - 1) * mask.shape[2] + j + 1] # 0
            THEN Entry(r, num_prefix_tokens + j) ELSE <<>>) \o KeptRow(r, j + 1)

ExpectedRow(r) == PrefixRow(r, 0) \o KeptRow(r, 0)

\* Row r of a result tensor, as a flat sequence.
OutRow(t, r) ==
    LET n == Prod(Tail(t.shape))
    IN SubSeq(t.data, (r - 1) * n + 1, r * n)

\* C1 as stated: with an aligned mask whose rows all keep keep_count
\* entries, every call returns a tensor of shape [B, P+keep_count, ...feature
\* dims], for any number of feature dimensions.
C1_AnyFeatureDims ==
    \A o \in BOOLEAN :
        (Called(o) /\ Bt >= 1 /\ MaskAligned /\ EqualCounts)
        => /\ results[o].status = "ok"
           /\ results[o].value.shape =
                <<Bt, num_prefix_tokens + RowCount(1)>> \o FeatureDims(tokens.shape)

\* C1 amended: for tokens [B, L, H] with exactly one feature dimension,
\* B >= 1 and H >= 1, and an aligned mask whose rows all keep keep_count
\* entries, the call returns a tensor of shape [B, P+keep_count, H].
C1_OutputShape ==
    \A o \in BOOLEAN :
        (Called(o) /\ Bt >= 1 /\ OneFeatureDim /\ MaskAligned /\ EqualCounts)
        => /\ results[o].status = "ok"
           /\ results[o].value.shape =
                <<Bt, num_prefix_tokens + RowCount(1), tokens.shape[3]>>

C1_Witness ==
    /\ Called(TRUE) /\ Bt = 2 /\ OneFeatureDim /\ MaskAligned /\ EqualCounts
    /\ num_prefix_tokens = 1 /\ RowCount(1) = 1 /\ Lt = 3
    /\ results[TRUE].value.shape = <<2, 2, 2>>

\* C1 boundary cases: keep_count = 0 with P = L.
C1_WitnessEmpty ==
    /\ Called(TRUE) /\ Bt = 2 /\ OneFeatureDim /\ MaskAligned
    /\ num_prefix_tokens = Lt /\ Lt = 2
    /\ results[TRUE].value.shape = <<2, 2, 2>>

\* C2 as stated: in every successful call (with P <= L), output row r is tokens[r, 0..P-1]
\* followed by the kept entries of row r in ascending position.
C2_EverySuccessfulCall ==
    \A o \in BOOLEAN :
        (results[o].status = "ok" /\ num_prefix_tokens <= Lt)
        => \A r \in 1..Bt : OutRow(results[o].value, r) = ExpectedRow(r)

\* C2 amended: in every successful call (with P <= L) whose mask rows all have the same
\* count of nonzero entries, output row r is tokens[r, 0..P-1] followed by
\* the kept entries of row r in ascending position.
C2_RowContents ==
    \A o \in BOOLEAN :
        (results[o].status = "ok" /\ num_prefix_tokens <= Lt /\ EqualCounts)
        => /\ results[o].value.shape[1] = Bt
           /\ \A r \in 1..Bt : OutRow(results[o].value, r) = ExpectedRow(r)

C2_Witness ==
    /\ results[TRUE].status = "ok" /\ EqualCounts
    /\ Bt = 2 /\ Lt = 3 /\ num_prefix_tokens = 1
    /\ mask.data = <<0, 1, 1, 0>>
    /\ results[TRUE].value.data = <<0, 1, 4, 5, 6, 7, 8, 9>>

\* C3 as stated: a mask with two rows of different counts never yields a
\* result.
C3_UnequalAlwaysFails ==
    \A o \in BOOLEAN :
        (Called(o) /\ ~EqualCounts) => results[o].status # "ok"

\* C3 amended: a mask with two rows of different counts whose total count
\* is not a multiple of B never yields a result.
C3_UnequalIndivisibleFails ==
    \A o \in BOOLEAN :
        (Called(o) /\ ~EqualCounts /\ Bt >= 1 /\ TotalCount % Bt # 0)
        => results[o].status # "ok"

C3_Witness ==
    /\ Called(TRUE) /\ ~EqualCounts /\ MaskAligned /\ OneFeatureDim
    /\ TotalCount % Bt # 0
    /\ results[TRUE].status = "RuntimeError"

\* C4 as stated: the call fails the shape check exactly when [B, L-P]
\* differs from mask.shape, whatever the feature dimensions.
C4_LeadingShapeOnly ==
    \A o \in BOOLEAN :
        Called(o)
        => (results[o].status = "AssertionError" <=> <<Bt, BodyLen>> # mask.shape)

\* C4 amended: the call fails the shape check exactly when body.shape[:-1]
\* differs from mask.shape; for tokens [B, L, H] that is exactly when
\* [B, L-P] differs from mask.shape, and for any other number of feature
\* dimensions every 2-D mask fails the check.
C4_ShapeCheck ==
    \A o \in BOOLEAN :
        Called(o)
        => /\ results[o].status = "AssertionError"
                <=> AllButLast(<<Bt, BodyLen>> \o FeatureDims(tokens.shape)) # mask.shape
           /\ Len(tokens.shape) = 3
                => (results[o].status = "AssertionError" <=> <<Bt, BodyLen>> # mask.shape)
           /\ Len(tokens.shape) # 3 => results[o].status = "AssertionError"

C4_Witness ==
    /\ Called(TRUE) /\ Len(tokens.shape) = 3
    /\ mask.shape = <<Bt, BodyLen + 1>>
    /\ results[TRUE].status = "AssertionError"

C4_WitnessPass ==
    /\ Called(TRUE) /\ Len(tokens.shape) = 3
    /\ mask.shape = <<Bt, BodyLen>> /\ Bt = 2 /\ BodyLen = 2
    /\ results[TRUE].status # "AssertionError"

\* C5 as stated: with no prefix and the all-true mask of shape [B, L], the
\* call returns a tensor equal to tokens, for any tokens [B, L, ...].
C5_AnyTokens ==
    \A o \in BOOLEAN :
        (Called(o) /\ num_prefix_tokens = 0 /\ mask.shape = <<Bt, Lt>> /\ AllTrueMask)
        => results[o] = Ok(tokens)

\* C5 amended: for tokens [B, L, H] with exactly one feature dimension,
\* B >= 1 and H >= 1, the call with no prefix and the all-true mask of shape
\* [B, L] returns a tensor equal to tokens.
C5_Identity ==
    \A o \in BOOLEAN :
        (Called(o) /\ num_prefix_tokens = 0 /\ mask.shape = <<Bt, Lt>> /\ AllTrueMask
           /\ Bt >= 1 /\ OneFeatureDim)
        => results[o] = Ok(tokens)

C5_Witness ==
    /\ Called(TRUE) /\ num_prefix_tokens = 0 /\ mask.shape = <<Bt, Lt>> /\ AllTrueMask
    /\ Bt = 2 /\ Lt = 3 /\ OneFeatureDim
    /\ results[TRUE].value.shape = <<2, 3, 2>>

C9_WitnessFail ==
    /\ Called(TRUE) /\ Called(FALSE)
    /\ results[FALSE].status = "RuntimeError"

----------------------------------------------------------------------------
(* Properties of torch_shape_get *)

\* The mirrored tree of the last call.
ReturnedTree == IF size_p THEN returned.tree ELSE returned

KeySet(d) == {d.keys[i] : i \in 1..Len(d.keys)}

\* The pairs <<leaf of x, what stands at its place in y>>; None counts as a
\* leaf here.  The children of a dict are paired by key.
RECURSIVE LeafPairs(_, _)
LeafPairs(x, y) ==
    CASE x.kind = "list" ->
           UNION {LeafPairs(x.items[i], y.items[i]) : i \in 1..Len(x.items)}
      [] x.kind = "dict" ->
           UNION {LeafPairs(ValueOf(x, k), ValueOf(y, k)) : k \in KeySet(x)}
      [] OTHER -> {<<x, y>>}

IsContainer(x) == x.kind \in {"list", "dict"}

\* y has the container shape of x; with keyOrder the keys of every dict are
\* in the order of x, without it they are the same keys in sorted order.
\* A leaf with dtype and shape is replaced by (dtype, shape) when size_p is
\* not set.
RECURSIVE Mirrors(_, _, _)
Mirrors(x, y, keyOrder) ==
    CASE x.kind = "list" ->
           /\ y.kind = "list"
           /\ Len(y.items) = Len(x.items)
           /\ \A i \in 1..Len(x.items) : Mirrors(x.items[i], y.items[i], keyOrder)
      [] x.kind = "dict" ->
           /\ y.kind = "dict"
           /\ Len(y.keys) = Len(x.keys)
           /\ Len(y.items) = Len(y.keys)
           /\ KeySet(y) = KeySet(x)
           /\ IF keyOrder THEN y.keys = x.keys ELSE y.keys = SortedKeys(x.keys)
           /\ \A k \in KeySet(x) : Mirrors(ValueOf(x, k), ValueOf(y, k), keyOrder)
      [] x.kind = "none" -> y = x
      [] OTHER ->
           /\ ~IsContainer(y)
           /\ ({"dtype", "shape"} \subseteq x.attrs /\ ~size_p)
                => y = TupleOut(<<DtypePart(x), ShapePart(x)>>)

\* C6 as stated: the returned tree has the container shape of the input:
\* every dict with the same keys in the same order, every list with the same
\* length and order, every leaf with dtype and shape replaced at its place by
\* (dtype, shape) when size_p is not set.
C6_SameKeyOrder == calls > 0 => Mirrors(input, ReturnedTree, TRUE)

\* C6 amended: the returned tree has the container shape of the input:
\* every dict with the same keys, each bound to the image of its own value
\* and listed in sorted key order, every list with the same length and
\* order, every leaf with dtype and shape replaced at its place by
\* (dtype, shape) when size_p is not set.
C6_MirrorsInput == calls > 0 => Mirrors(input, ReturnedTree, FALSE)

C6_Witness ==
    /\ calls > 0 /\ ~size_p
    /\ input = DictNode(<<"b", "a">>, <<ListNode(<<NdArray>>), TensorMB>>)
    /\ returned = DictNode(<<"a", "b">>,
                           <<TupleOut(<<DtypePart(TensorMB), ShapePart(TensorMB)>>),
                             ListNode(<<TupleOut(<<DtypePart(NdArray), ShapePart(NdArray)>>)>>)>>)

\* The bytes of the leaves of x that have element_size and nelement.
RECURSIVE BytesOf(_)
RECURSIVE BytesOfSeq(_)
BytesOfSeq(xs) ==
    IF Len(xs) = 0 THEN 0 ELSE BytesOf(Head(xs)) + BytesOfSeq(Tail(xs))
BytesOf(x) ==
    CASE IsContainer(x) -> BytesOfSeq(x.items)
      [] x.kind = "none" -> 0
      [] OTHER -> IF {"element_size", "nelement"} \subseteq x.attrs
                    THEN x.element_size * x.nelement ELSE 0

\* m is the number bytes / 1024^2.
IsMegabytesOf(m, bytes) == m.exp <= 2 /\ m.num * Pow1024(2 - m.exp) = bytes

\* C7: after any sequence of calls, a call with size_p returned total_size_mb
\* equal to the sum over the leaves of its own input of
\* element_size * nelement / 1024^2, together with the tree, and a call
\* without size_p returned only the tree.
C7_TotalIsLocal ==
    calls > 0
    => IF size_p
         THEN /\ DOMAIN returned = {"total_size_mb", "tree"}
              /\ IsMegabytesOf(returned.total_size_mb, BytesOf(input))
         ELSE /\ "total_size_mb" \notin DOMAIN returned
              /\ returned.kind \in {"list", "dict", "none", "tuple", "class", "leaf"}

C7_Witness ==
    /\ calls = 2 /\ size_p
    /\ input = ListNode(<<ListNode(<<TensorMB, PlainInt>>), TensorSmall>>)
    /\ returned.total_size_mb = Mb(1048576 + 48, 2)

C7_WitnessNoSize ==
    /\ calls = 2 /\ ~size_p
    /\ input = ListNode(<<ListNode(<<TensorMB, PlainInt>>), TensorSmall>>)
    /\ returned.kind = "list"

NoCapabilities(x) == x.kind = "leaf" /\ x.attrs \cap TensorAttrs = {}

TypeOf(x) == IF x.kind = "none" THEN [kind |-> "class", name |-> "NoneType"]
             ELSE ClassOut(x)

\* C8 as stated: every leaf without capabilities, None included, comes back
\* as itself when type_only_p is not set and as its type when it is.
C8_EveryPlainLeaf ==
    calls > 0
    => \A pr \in LeafPairs(input, ReturnedTree) :
         (pr[1].kind = "none" \/ NoCapabilities(pr[1]))
         => pr[2] = (IF type_only_p THEN TypeOf(pr[1]) ELSE pr[1])

\* C8 amended: every leaf without capabilities other than None comes back as
\* itself when type_only_p is not set and as its type when it is, for either
\* value of size_p; None comes back as None in both modes.
C8_Fallback ==
    calls > 0
    => \A pr \in LeafPairs(input, ReturnedTree) :
         /\ NoCapabilities(pr[1])
              => pr[2] = (IF type_only_p THEN TypeOf(pr[1]) ELSE pr[1])
         /\ pr[1].kind = "none" => pr[2] = pr[1]

C8_Witness ==
    /\ calls > 0 /\ type_only_p /\ size_p
    /\ input = ListNode(<<PlainInt, NoneNode>>)
    /\ returned.tree = ListNode(<<ClassOut(PlainInt), NoneNode>>)

C8_WitnessValue ==
    /\ calls > 0 /\ ~type_only_p
    /\ input = PlainStr
    /\ returned = PlainStr

IsFallback(x, y) == y = x \/ y = ClassOut(x)

HasPart(y, tag) == \E i \in 1..Len(y.parts) : y.parts[i].tag = tag

\* C10 as stated: every per-leaf output is the fallback, or a tuple whose
\* first two components are a type tag and the leaf's shape, followed by at
\* most one size string present only under size_p.
C10_AlwaysShape ==
    calls > 0
    => \A pr \in LeafPairs(input, ReturnedTree) :
         pr[1].kind = "leaf"
         => \/ IsFallback(pr[1], pr[2])
            \/ /\ pr[2].kind = "tuple"
               /\ Len(pr[2].parts) \in 2..3
               /\ pr[2].parts[1].tag \in {"dtype", "class"}
               /\ pr[2].parts[2] = ShapePart(pr[1])
               /\ Len(pr[2].parts) = 3
                    => (pr[2].parts[3].tag = "str" /\ size_p)

\* C10 amended: every per-leaf output is the fallback, or a tuple made of,
\* in this order, the leaf's dtype if it has one, else its type if it has a
\* shape; its shape if it has one; one size string exactly when size_p is set
\* and the leaf has element_size and nelement.  The shape component is
\* present exactly when the leaf has a shape.
C10_Descriptor ==
    calls > 0
    => \A pr \in LeafPairs(input, ReturnedTree) :
         pr[1].kind = "leaf"
         => LET x == pr[1]
                y == pr[2]
                sized == size_p /\ {"element_size", "nelement"} \subseteq x.attrs
                lead == IF "dtype" \in x.attrs THEN <<DtypePart(x)>>
                        ELSE IF "shape" \in x.attrs THEN <<ClassPart(x)>> ELSE <<>>
                shp == IF "shape" \in x.attrs THEN <<ShapePart(x)>> ELSE <<>>
            IN IF Len(lead) = 0 /\ ~sized
                 THEN IsFallback(x, y)
                 ELSE /\ y.kind = "tuple"
                      /\ Len(y.parts) = Len(lead) + Len(shp) + (IF sized THEN 1 ELSE 0)
                      /\ SubSeq(y.parts, 1, Len(lead) + Len(shp)) = lead \o shp
                      /\ sized => y.parts[Len(y.parts)].tag = "str"
                      /\ HasPart(y, "shape") <=> "shape" \in x.attrs

C10_Witness ==
    /\ calls > 0 /\ size_p
    /\ input = DtypeOnly
    /\ returned.tree = TupleOut(<<DtypePart(DtypeOnly)>>)

C10_WitnessSizeOnly ==
    /\ calls > 0 /\ size_p
    /\ input = SizeOnly
    /\ returned.tree = TupleOut(<<[tag |-> "str", hundredths |-> 150, suffix |-> "MB"]>>)

C10_WitnessFull ==
    /\ calls > 0 /\ size_p
    /\ input = TensorEighth
    /\ returned.tree = TupleOut(<<DtypePart(TensorEighth), ShapePart(TensorEighth),
                                  [tag |-> "str", hundredths |-> 12, suffix |-> "MB"]>>)

====
